---- MODULE Spec2Model ----
(***************************************************************************)
(* The voice assistant of src/App.tsx: the React state of the component,   *)
(* its refs, the live sessions it has asked for, the playback sources it   *)
(* has created, and one action per handler or asynchronous continuation.   *)
(*                                                                         *)
(* Every handler runs to completion on the event loop, so it is one        *)
(* action; a handler with an await is one action per segment.  State       *)
(* setters are applied in call order and the component re-renders before   *)
(* the next task, so a handler bound at render (a button's onClick) reads   *)
(* the current state, while the callbacks handed to ai.live.connect keep    *)
(* the values of the render in which startVoiceSession was called.          *)
(***************************************************************************)
EXTENDS Integers, Sequences, FiniteSets, TLC

\* ---------------------------------------------------------------- bounds
MaxSessions == 2      \* session slots
MaxChunks == 2        \* chunk slots
MaxTime == 2          \* ticks of the clock
MaxLen == 2           \* fragments a pending string may hold
MaxTurns == 2         \* turn completions in the transcript log
LifeChunks == 1       \* chunks received under SpecLife
MaxItems == 2         \* records the collections hold in all
MaxSaves == 1         \* calls of persistence.save awaiting their response

Sessions == 1..MaxSessions
Chunks == 1..MaxChunks
Durations == {1, 2}                \* audioBuffer.duration, in clock ticks
InFrags == {<<"a">>}               \* inputTranscription.text
OutFrags == {<<"x">>}              \* outputTranscription.text
None == <<"none">>                 \* an absent field of a message
Null == 0                          \* a ref holding null

Max(a, b) == IF a >= b THEN a ELSE b

\* The text of a field of a message, empty when the field is absent.
fragment(f) == IF f = None THEN <<>> ELSE f

NoneHeard == [in |-> <<>>, out |-> <<>>]

VARIABLES
    isConnected, isConnecting, status,        \* useState, lines 65-68
    transcriptions, currentInput, currentOutput,   \* useState, lines 69-71
    audioContextsRef, audioNodesRef,          \* useRef, lines 73-74
    sessionRef, nextStartTimeRef,             \* useRef, lines 75-76
    sess,        \* the sessions startVoiceSession has asked for
    src,         \* the audio chunks received and their playback sources
    now,         \* real time: Date.now() and the base of every AudioContext
    heard,       \* history: the fragments received in the turn in progress
    data, syncStatus,         \* useState, lines 15-27
    lastSavedData,            \* useRef, line 45
    timer,       \* the pending timeout of the sync effect (line 49)
    loading,     \* where loadInitialData stands (lines 30-41)
    saving,      \* the calls of persistence.save awaiting their response
    localStorage,             \* the item LOCAL_STORAGE_KEY of localStorage
    remote       \* the document the remote store holds

\* The record collections and their persistence.
dataVars == <<data, syncStatus, lastSavedData, timer, loading, saving,
              localStorage, remote>>

\* The voice assistant.
voiceVars == <<isConnected, isConnecting, status, transcriptions, currentInput,
               currentOutput, audioContextsRef, audioNodesRef, sessionRef,
               nextStartTimeRef, sess, src, now, heard>>

vars == <<voiceVars, dataVars>>

\* A session: where its startVoiceSession call and its connection stand, and
\* what its callbacks closed over.
\*   phase:    none | mic (awaiting getUserMedia) | connecting | open |
\*             closing (close() called or an error seen, onclose to come) |
\*             closed | failed (the call ended in its catch)
\*   resolved: the continuation of `await sessionPromise` has run
\*   capIn, capOut: currentInput/currentOutput of the render that made the
\*             callbacks (line 122 reads them)
\*   capture:  the script processor is attached (lines 110-116)
\*   mic:      the microphone stream is held (line 104)
\*   base:     the time at which the session's AudioContexts were created
NoSession ==
    [phase |-> "none", resolved |-> FALSE, capIn |-> <<>>, capOut |-> <<>>,
     capture |-> FALSE, mic |-> FALSE, base |-> 0]

\* A chunk: none | decoding | scheduled | stopped | ended.  A record keeps
\* what the code can still read: the arrival values until the source is
\* scheduled, the schedule until it is stopped, nothing once it has ended.
\*   ctx, nodes: the contexts and the node set read at lines 127-128
\*   arrival:    max(nextStartTime, currentTime) computed at line 129
\*   when:       the argument of source.start (line 136)
\*   playStart, playEnd: when the source sounds, on its context's clock
\*   inSet:      the source is in its `sources` set
NoChunk ==
    [state |-> "none", s |-> 0, ctx |-> 0, nodes |-> 0, dur |-> 0,
     interrupted |-> FALSE, arrival |-> 0, when |-> 0, playStart |-> 0,
     playEnd |-> 0, inSet |-> FALSE]

\* ------------------------------------------------------------- documents
\* The keys of AppData, in the order of the initial state (App.tsx 19-27).
Keys ==
    <<"routine", "students", "faculty", "notices", "attendance", "polls",
      "courses">>

Collections == {Keys[k] : k \in 1..Len(Keys)}

Items == {"p"}                    \* a record of a collection

EmptyDoc == [k \in Collections |-> <<>>]

\* The number of records a document holds.
RECURSIVE sizeFrom(_, _)
sizeFrom(d, k) ==
    IF k > Len(Keys) THEN 0 ELSE Len(d[Keys[k]]) + sizeFrom(d, k + 1)

size(d) == sizeFrom(d, 1)

\* JSON.stringify of a document: each key followed by its records.
RECURSIVE stringifyFrom(_, _)
stringifyFrom(d, k) ==
    IF k > Len(Keys) THEN <<>>
    ELSE <<Keys[k]>> \o d[Keys[k]] \o stringifyFrom(d, k + 1)

stringify(d) == stringifyFrom(d, 1)

\* JSON.parse: the records that follow each key, up to the next key.
RECURSIVE itemsFrom(_, _)
itemsFrom(s, n) ==
    IF n > Len(s) \/ s[n] \in Collections THEN <<>>
    ELSE <<s[n]>> \o itemsFrom(s, n + 1)

parse(s) ==
    [k \in Collections |->
        IF \E n \in 1..Len(s) : s[n] = k
        THEN itemsFrom(s, 1 + CHOOSE n \in 1..Len(s) : s[n] = k)
        ELSE <<>>]

\* localStorage.getItem answers null for a key never written.
NoItem == <<"null">>

\* The truthiness test of line 49 of persistence.ts: null and the empty
\* string are falsy.
truthy(s) == s # NoItem /\ s # <<>>

\* A document or its absence (null).
Absent == [some |-> FALSE, doc |-> EmptyDoc]

Some(d) == [some |-> TRUE, doc |-> d]

\* No timeout is pending.
NoTimer == [set |-> FALSE, data |-> EmptyDoc, str |-> <<>>]

\* outputCtx.currentTime of the contexts created by session g
currentTime(g) == now - sess[g].base

\* audioNodesRef.current.sources of the node set g, over the chunks S
sourcesOf(S, g) == {c \in DOMAIN S : S[c].nodes = g /\ S[c].inSet}

\* The remote documents and the cached items a run may find.
OneStudent == [EmptyDoc EXCEPT !["students"] = <<"p">>]

OneFaculty == [EmptyDoc EXCEPT !["faculty"] = <<"p">>]

RemoteDocs == {EmptyDoc, OneStudent, OneFaculty}

StoredItems == {NoItem} \cup {stringify(d) : d \in RemoteDocs}

\* The record collections once the component has mounted: the data is
\* empty and loadInitialData awaits persistence.load (lines 19-42).
InitStore ==
    /\ data = EmptyDoc
    /\ syncStatus = "syncing"
    /\ lastSavedData = <<>>
    /\ timer = NoTimer
    /\ loading = "fetching"
    /\ saving = {}

InitVoice ==
    /\ isConnected = FALSE
    /\ isConnecting = FALSE
    /\ status = "idle"
    /\ transcriptions = <<>>
    /\ currentInput = <<>>
    /\ currentOutput = <<>>
    /\ audioContextsRef = Null
    /\ audioNodesRef = Null
    /\ sessionRef = Null
    /\ nextStartTimeRef = 0
    /\ sess = [i \in Sessions |-> NoSession]
    /\ src = [c \in Chunks |-> NoChunk]
    /\ now = 0
    /\ heard = NoneHeard

\* A first run: nothing cached, an empty remote document.
Init ==
    /\ InitVoice
    /\ InitStore
    /\ localStorage = NoItem
    /\ remote = EmptyDoc

\* A run that finds what earlier runs have left.
InitData ==
    /\ InitVoice
    /\ InitStore
    /\ localStorage \in StoredItems
    /\ remote \in RemoteDocs

\* ------------------------------------------------- stopAllAudio (78-84)
\* The sources of the current node set are stopped (a stopped source still
\* reports 'ended') and the set is cleared; with no node set nothing is
\* touched.
stopAllAudioSrc(S, g) ==
    [c \in DOMAIN S |->
        IF g # Null /\ S[c].nodes = g /\ S[c].inSet
        THEN [NoChunk EXCEPT !.state = "stopped", !.s = S[c].s,
                             !.nodes = S[c].nodes]
        ELSE S[c]]

\* A stopAllAudio that leaves the cursor where it was.
stopAllAudioKeepsTime(t) == t

\* Line 83: the cursor is reset.
stopAllAudioTime(t) == 0

\* ---------------------------------------------- stopVoiceSession (86-92)
\* session.close() on the session the ref holds: an open socket starts
\* closing and will report onclose.
closeSession(SS, r) ==
    IF r # Null /\ SS[r].phase = "open"
    THEN [SS EXCEPT ![r].phase = "closing"]
    ELSE SS

\* The state stopVoiceSession works on, and its result.
StopState ==
    [sessionRef |-> sessionRef, sess |-> sess, src |-> src,
     audioNodesRef |-> audioNodesRef, nextStartTimeRef |-> nextStartTimeRef,
     isConnected |-> isConnected, isConnecting |-> isConnecting,
     status |-> status, threw |-> FALSE]

\* A stopVoiceSession without the null check of line 87: close() is called
\* on a null ref and throws.
stopVoiceSessionNoGuard(st) ==
    [sessionRef |-> Null,
     sess |-> closeSession(st.sess, st.sessionRef),
     src |-> stopAllAudioSrc(st.src, st.audioNodesRef),
     audioNodesRef |-> st.audioNodesRef,
     nextStartTimeRef |-> stopAllAudioTime(st.nextStartTimeRef),
     isConnected |-> FALSE,
     isConnecting |-> FALSE,
     status |-> "idle",
     threw |-> st.threw \/ st.sessionRef = Null]

\* A stopVoiceSession without line 90: isConnecting is left as it was.
stopVoiceSessionKeepsConnecting(st) ==
    [sessionRef |-> Null,
     sess |-> closeSession(st.sess, st.sessionRef),
     src |-> stopAllAudioSrc(st.src, st.audioNodesRef),
     audioNodesRef |-> st.audioNodesRef,
     nextStartTimeRef |-> stopAllAudioTime(st.nextStartTimeRef),
     isConnected |-> FALSE,
     isConnecting |-> st.isConnecting,
     status |-> "idle",
     threw |-> st.threw]

stopVoiceSessionOn(st) ==
    [sessionRef |-> Null,
     sess |-> closeSession(st.sess, st.sessionRef),
     src |-> stopAllAudioSrc(st.src, st.audioNodesRef),
     audioNodesRef |-> st.audioNodesRef,
     nextStartTimeRef |-> stopAllAudioTime(st.nextStartTimeRef),
     isConnected |-> FALSE,
     isConnecting |-> FALSE,
     status |-> "idle",
     threw |-> st.threw]

\* The effect of a call of stopVoiceSession on the variables; SS is the
\* session table the caller has already updated.
stopVoiceSessionFrom(SS) ==
    LET r == stopVoiceSessionOn([StopState EXCEPT !.sess = SS]) IN
    /\ sessionRef' = r.sessionRef
    /\ sess' = r.sess
    /\ src' = r.src
    /\ nextStartTimeRef' = r.nextStartTimeRef
    /\ isConnected' = r.isConnected
    /\ isConnecting' = r.isConnecting
    /\ status' = r.status
    /\ UNCHANGED <<dataVars, audioContextsRef, audioNodesRef, transcriptions,
                   currentInput, currentOutput, now, heard>>

\* The user's stop (line 411).
stopVoiceSession ==
    stopVoiceSessionFrom(sess)

\* ---------------------------------------------- startVoiceSession (94-154)
free == {i \in Sessions : sess[i].phase = "none"}

\* Lines 95-104, up to the await of getUserMedia.  With isConnecting or
\* isConnected set the call returns at once.
startVoiceSession ==
    \/ /\ isConnecting \/ isConnected
       /\ UNCHANGED <<dataVars, isConnected, isConnecting, status, transcriptions,
                      currentInput, currentOutput, audioContextsRef,
                      audioNodesRef, sessionRef, nextStartTimeRef, sess, src,
                      now, heard>>
    \/ /\ ~(isConnecting \/ isConnected)
       /\ free # {}
       /\ LET i == CHOOSE k \in free : \A j \in free : k <= j IN
          /\ isConnecting' = TRUE
          /\ audioContextsRef' = i
          /\ audioNodesRef' = i
          /\ sess' = [sess EXCEPT ![i] =
                        [NoSession EXCEPT !.phase = "mic",
                                          !.capIn = currentInput,
                                          !.capOut = currentOutput,
                                          !.base = now]]
          /\ heard' = heard
       /\ UNCHANGED <<dataVars, isConnected, status, transcriptions, currentInput,
                      currentOutput, sessionRef, nextStartTimeRef, src, now>>

\* getUserMedia resolves: the stream is held and ai.live.connect is called
\* (lines 104-151), up to the await of sessionPromise.
getUserMediaOk(i) ==
    /\ sess[i].phase = "mic"
    /\ sess' = [sess EXCEPT ![i].phase = "connecting", ![i].mic = TRUE]
    /\ UNCHANGED <<dataVars, isConnected, isConnecting, status, transcriptions,
                   currentInput, currentOutput, audioContextsRef,
                   audioNodesRef, sessionRef, nextStartTimeRef, src, now, heard>>

\* getUserMedia rejects, or the connect call does: the catch of line 153.
startFailed(i) ==
    /\ sess[i].phase \in {"mic", "connecting"}
    /\ sess' = [sess EXCEPT ![i].phase = "failed"]
    /\ isConnecting' = FALSE
    /\ UNCHANGED <<dataVars, isConnected, status, transcriptions, currentInput,
                   currentOutput, audioContextsRef, audioNodesRef, sessionRef,
                   nextStartTimeRef, src, now, heard>>

\* onopen (lines 108-117)
onopen(i) ==
    /\ sess[i].phase = "connecting"
    /\ sess' = [sess EXCEPT ![i].phase = "open", ![i].capture = TRUE]
    /\ isConnected' = TRUE
    /\ isConnecting' = FALSE
    /\ status' = "listening"
    /\ UNCHANGED <<dataVars, transcriptions, currentInput, currentOutput,
                   audioContextsRef, audioNodesRef, sessionRef,
                   nextStartTimeRef, src, now, heard>>

\* The continuation of `await sessionPromise` (line 152): the promise
\* resolves once onopen has run, whatever has become of the session since.
sessionResolved(i) ==
    /\ sess[i].phase \in {"open", "closing", "closed"}
    /\ sess[i].capture
    /\ ~sess[i].resolved
    /\ sess' = [sess EXCEPT ![i].resolved = TRUE]
    /\ sessionRef' = i
    /\ UNCHANGED <<dataVars, isConnected, isConnecting, status, transcriptions,
                   currentInput, currentOutput, audioContextsRef,
                   audioNodesRef, nextStartTimeRef, src, now, heard>>

\* onerror (line 142): the connection fails; its close event follows.
onerror(i) ==
    /\ sess[i].phase \in {"connecting", "open"}
    /\ stopVoiceSessionFrom([sess EXCEPT ![i].phase = "closing"])

\* onclose (line 143): the remote end closed, or a close() has completed.
onclose(i) ==
    /\ sess[i].phase \in {"connecting", "open", "closing"}
    /\ stopVoiceSessionFrom([sess EXCEPT ![i].phase = "closed"])

\* onaudioprocess (lines 112-115): a captured frame is encoded, and sent
\* once sessionPromise has resolved.
onaudioprocess(i) ==
    /\ sess[i].capture
    /\ UNCHANGED <<dataVars, isConnected, isConnecting, status, transcriptions,
                   currentInput, currentOutput, audioContextsRef,
                   audioNodesRef, sessionRef, nextStartTimeRef, sess, src,
                   now, heard>>

\* ------------------------------------------------------ onmessage (118-141)
\* An inbound message: each field present or absent.
Messages ==
    [out : OutFrags \cup {None}, in : InFrags \cup {None},
     turnComplete : BOOLEAN, audio : Durations \cup {0},
     interrupted : BOOLEAN]

\* Lines 119-120: the fragment appended to each pending string, and the
\* status the message leaves.
appendOutput(m, prev) == IF m.out # None THEN prev \o m.out ELSE prev

appendInput(m, prev) ==
    IF m.out = None /\ m.in # None THEN prev \o m.in ELSE prev

statusAfter(m, prev) ==
    IF m.out # None THEN "speaking"
    ELSE IF m.in # None THEN "listening"
    ELSE prev

\* A turn completion that keeps only the sides that hold text.
turnEntriesNonEmpty(i, t) ==
    SelectSeq(
        << [id |-> <<t, "-in">>, role |-> "user", text |-> sess[i].capIn,
            timestamp |-> t],
           [id |-> <<t, "-out">>, role |-> "model", text |-> sess[i].capOut,
            timestamp |-> t] >>,
        LAMBDA e : e.text # <<>>)

\* Line 122: the two entries of a completed turn, made by the callbacks of
\* session i at time t.
turnEntries(i, t) ==
    << [id |-> <<t, "-in">>, role |-> "user", text |-> sess[i].capIn,
        timestamp |-> t],
       [id |-> <<t, "-out">>, role |-> "model", text |-> sess[i].capOut,
        timestamp |-> t] >>

\* A clamp that takes the clock and forgets the cursor.
clampToClock(t, clock) == clock

\* Line 129: the cursor is clamped to the output clock when a chunk arrives.
clampStart(t, clock) == Max(t, clock)

\* Line 126: the message carries audio and both refs are set.
hasAudio(m) == m.audio # 0 /\ audioContextsRef # Null /\ audioNodesRef # Null

freeChunks == {c \in Chunks : src[c].state = "none"}

\* The handler up to its await (line 130), or to its end when the message
\* carries no audio.
onmessage(i, m) ==
    /\ sess[i].phase = "open"
    /\ m.out # None => Len(currentOutput) < MaxLen /\ Len(heard.out) < MaxLen
    /\ m.in # None => Len(currentInput) < MaxLen /\ Len(heard.in) < MaxLen
    /\ m.turnComplete => Len(transcriptions) < 2 * MaxTurns
    /\ hasAudio(m) => freeChunks # {}
    /\ status' = statusAfter(m, status)
    /\ heard' = IF m.turnComplete THEN NoneHeard
                ELSE [in |-> heard.in \o fragment(m.in),
                      out |-> heard.out \o fragment(m.out)]
    /\ IF m.turnComplete
       THEN /\ transcriptions' = transcriptions \o turnEntries(i, now)
            /\ currentInput' = <<>>
            /\ currentOutput' = <<>>
       ELSE /\ transcriptions' = transcriptions
            /\ currentInput' = appendInput(m, currentInput)
            /\ currentOutput' = appendOutput(m, currentOutput)
    /\ IF hasAudio(m)
       THEN LET c == CHOOSE k \in freeChunks : \A j \in freeChunks : k <= j
                t == clampStart(nextStartTimeRef,
                                currentTime(audioContextsRef))
            IN /\ nextStartTimeRef' = t
               /\ src' = [src EXCEPT ![c] =
                            [NoChunk EXCEPT !.state = "decoding", !.s = i,
                                            !.ctx = audioContextsRef,
                                            !.nodes = audioNodesRef,
                                            !.dur = m.audio,
                                            !.interrupted = m.interrupted,
                                            !.arrival = t]]
       ELSE IF m.interrupted
       THEN /\ src' = stopAllAudioSrc(src, audioNodesRef)
            /\ nextStartTimeRef' = stopAllAudioTime(nextStartTimeRef)
       ELSE /\ UNCHANGED <<src, nextStartTimeRef>>
    /\ UNCHANGED <<dataVars, isConnected, isConnecting, audioContextsRef,
                   audioNodesRef, sessionRef, sess, now>>

\* Line 137: the cursor advances by the buffer's duration.
advance(t, d) == t + d

\* The rest of the handler, once decodeAudioData has resolved (lines
\* 131-140): the source is started at the cursor, the cursor advances, the
\* source joins the set read before the await, and an interrupted marker
\* of the same message stops all audio.
decodeAudioDone(c) ==
    /\ src[c].state = "decoding"
    /\ LET when == nextStartTimeRef
           begin == Max(when, currentTime(src[c].ctx))
           started == [src EXCEPT ![c].state = "scheduled",
                                  ![c].interrupted = FALSE,
                                  ![c].arrival = 0,
                                  ![c].when = when,
                                  ![c].playStart = begin,
                                  ![c].playEnd = begin + src[c].dur,
                                  ![c].inSet = TRUE]
       IN IF src[c].interrupted
          THEN /\ src' = stopAllAudioSrc(started, audioNodesRef)
               /\ nextStartTimeRef' =
                      stopAllAudioTime(advance(when, src[c].dur))
          ELSE /\ src' = started
               /\ nextStartTimeRef' = advance(when, src[c].dur)
    /\ UNCHANGED <<dataVars, isConnected, isConnecting, status, transcriptions,
                   currentInput, currentOutput, audioContextsRef,
                   audioNodesRef, sessionRef, sess, now, heard>>

\* An 'ended' listener that reports idle whatever the set still holds.
endedStatusAlways(remaining, prev) == "idle"

\* Line 135: status after a source has left the set, which then holds
\* remaining.
endedStatus(remaining, prev) == IF remaining = {} THEN "idle" ELSE prev

\* The 'ended' listener of a source (line 135): it runs when the source has
\* played to its end or has been stopped.
ended(c) ==
    /\ \/ src[c].state = "stopped"
       \/ src[c].state = "scheduled" /\ currentTime(src[c].ctx) >= src[c].playEnd
    /\ src' = [src EXCEPT ![c] = [NoChunk EXCEPT !.state = "ended"]]
    /\ status' = endedStatus(sourcesOf(src', src[c].nodes), status)
    /\ UNCHANGED <<dataVars, isConnected, isConnecting, transcriptions, currentInput,
                   currentOutput, audioContextsRef, audioNodesRef, sessionRef,
                   nextStartTimeRef, sess, now, heard>>

\* Time passes.
Tick ==
    /\ now < MaxTime
    /\ now' = now + 1
    /\ UNCHANGED <<dataVars, isConnected, isConnecting, status, transcriptions,
                   currentInput, currentOutput, audioContextsRef,
                   audioNodesRef, sessionRef, nextStartTimeRef, sess, src, heard>>

\* ------------------------------------------ persistence (persistence.ts)
\* How the remote store answers a request.
Outcomes == {"ok", "notok", "throws"}

\* A load that gives up when the remote store fails.
loadNoFallback(outcome, doc, cache) ==
    IF outcome = "ok"
    THEN [ret |-> Some(doc), cache |-> stringify(doc), threw |-> FALSE]
    ELSE [ret |-> Absent, cache |-> cache, threw |-> FALSE]

\* persistence.load (lines 27-50): what it returns, what it leaves in the
\* cache, and whether it throws, for an answer of the remote store holding
\* doc and a cache holding cache.
load(outcome, doc, cache) ==
    IF outcome = "ok"
    THEN [ret |-> Some(doc), cache |-> stringify(doc), threw |-> FALSE]
    ELSE [ret |-> IF truthy(cache) THEN Some(parse(cache)) ELSE Absent,
          cache |-> cache, threw |-> FALSE]

\* ------------------------------------------------- the sync effect (44-62)
\* The effect run for the data d: the timeout it leaves pending, the one of
\* the previous run having been cleared.
syncEffect(d, last) ==
    IF \/ stringify(d) = last
       \/ (d["routine"] = <<>> /\ d["students"] = <<>> /\ d["notices"] = <<>>)
    THEN NoTimer
    ELSE [set |-> TRUE, data |-> d, str |-> stringify(d)]

\* loadInitialData once persistence.load has returned (lines 33-39).
loadDone(outcome) ==
    /\ loading = "fetching"
    /\ loading' = "done"
    /\ LET r == load(outcome, remote, localStorage) IN
       /\ localStorage' = r.cache
       /\ IF r.ret.some
          THEN /\ data' = r.ret.doc
               /\ syncStatus' = "synced"
               /\ timer' = syncEffect(r.ret.doc, lastSavedData)
          ELSE /\ data' = data
               /\ syncStatus' = "error"
               /\ timer' = timer
    /\ UNCHANGED <<voiceVars, lastSavedData, saving, remote>>

\* The collections a form adds to (lines 162-167).
Addable == Collections \ {"attendance"}

\* handleAddItem (lines 157-170)
handleAddItem(k, item) ==
    /\ size(data) < MaxItems
    /\ data' = [data EXCEPT ![k] = Append(@, item)]
    /\ timer' = syncEffect(data', lastSavedData)
    /\ UNCHANGED <<voiceVars, syncStatus, lastSavedData, loading, saving,
                   localStorage, remote>>

\* handleRemoveItem (lines 172-176); the index counts from 1 here.
handleRemoveItem(category, index) ==
    /\ index \in 1..Len(data[category])
    /\ data' = [data EXCEPT ![category] =
                    SubSeq(@, 1, index - 1) \o SubSeq(@, index + 1, Len(@))]
    /\ timer' = syncEffect(data', lastSavedData)
    /\ UNCHANGED <<voiceVars, syncStatus, lastSavedData, loading, saving,
                   localStorage, remote>>

\* The timeout fires (lines 49-51): persistence.save is called with the
\* data of the effect that set it, and writes the cache before its request
\* (persistence.ts 55-57).
timerFires ==
    /\ timer.set
    /\ Cardinality(saving) < MaxSaves
    /\ syncStatus' = "syncing"
    /\ localStorage' = stringify(timer.data)
    /\ saving' = saving \cup {timer}
    /\ timer' = NoTimer
    /\ UNCHANGED <<voiceVars, data, lastSavedData, loading, remote>>

\* persistence.save returns (persistence.ts 59-73, App.tsx 52-57).
saveDone(s, ok) ==
    /\ s \in saving
    /\ saving' = saving \ {s}
    /\ IF ok
       THEN /\ remote' = s.data
            /\ syncStatus' = "synced"
            /\ lastSavedData' = s.str
       ELSE /\ remote' = remote
            /\ syncStatus' = "error"
            /\ lastSavedData' = lastSavedData
    /\ UNCHANGED <<voiceVars, data, timer, loading, localStorage>>

\* ------------------------------------------------------- specifications
started == Cardinality({i \in Sessions : sess[i].phase # "none"})
received == Cardinality({c \in Chunks : src[c].state # "none"})

\* The messages of each specification.
TextMessages ==
    {m \in Messages : m.audio = 0 /\ ~m.interrupted}
AudioMessages ==
    {m \in Messages : m.out = None /\ m.in = None /\ ~m.turnComplete
                      /\ (m.audio # 0 \/ m.interrupted)}
LifeMessages ==
    {m \in AudioMessages : m.audio \in {0, 1}}

\* The session lifecycle with playback: every handler, messages that carry
\* audio or the interrupted marker.
NextLife ==
    \/ startVoiceSession
    \/ stopVoiceSession
    \/ \E i \in Sessions : getUserMediaOk(i)
    \/ \E i \in Sessions : startFailed(i)
    \/ \E i \in Sessions : onopen(i)
    \/ \E i \in Sessions : sessionResolved(i)
    \/ \E i \in Sessions : onerror(i)
    \/ \E i \in Sessions : onclose(i)
    \/ \E i \in Sessions : onaudioprocess(i)
    \/ \E i \in Sessions : \E m \in LifeMessages :
          (m.audio # 0 => received < LifeChunks) /\ onmessage(i, m)
    \/ \E c \in Chunks : decodeAudioDone(c)
    \/ \E c \in Chunks : ended(c)

SpecLife == Init /\ [][NextLife]_vars

\* The transcript: two sessions come and go, messages carry text and turn
\* completions.
NextText ==
    \/ (started < 2 \/ isConnecting \/ isConnected)
       /\ startVoiceSession
    \/ stopVoiceSession
    \/ \E i \in Sessions : getUserMediaOk(i)
    \/ \E i \in Sessions : onopen(i)
    \/ \E i \in Sessions : sessionResolved(i)
    \/ \E i \in Sessions : onclose(i)
    \/ \E i \in Sessions : \E m \in TextMessages : onmessage(i, m)

SpecText == Init /\ [][NextText]_vars

\* Playback within one session: messages carry audio of every duration and
\* the interrupted marker, and time passes.
NextAudio ==
    \/ (started < 1 \/ isConnecting \/ isConnected)
       /\ startVoiceSession
    \/ stopVoiceSession
    \/ \E i \in Sessions : getUserMediaOk(i)
    \/ \E i \in Sessions : onopen(i)
    \/ \E i \in Sessions : sessionResolved(i)
    \/ \E i \in Sessions : onclose(i)
    \/ \E i \in Sessions : \E m \in AudioMessages : onmessage(i, m)
    \/ \E c \in Chunks : decodeAudioDone(c)
    \/ \E c \in Chunks : ended(c)
    \/ Tick

SpecAudio == Init /\ [][NextAudio]_vars

\* Uninterrupted playback within one session: messages carry audio only,
\* nothing stops the session, and time passes.
PlayMessages == {m \in AudioMessages : ~m.interrupted}

NextPlay ==
    \/ (started < 1 \/ isConnecting \/ isConnected)
       /\ startVoiceSession
    \/ \E i \in Sessions : getUserMediaOk(i)
    \/ \E i \in Sessions : onopen(i)
    \/ \E i \in Sessions : sessionResolved(i)
    \/ \E i \in Sessions : \E m \in PlayMessages : onmessage(i, m)
    \/ \E c \in Chunks : decodeAudioDone(c)
    \/ \E c \in Chunks : ended(c)
    \/ Tick

SpecPlay == Init /\ [][NextPlay]_vars

\* The collections records are added to under SpecData: one the test of
\* line 47 reads and one it does not.
DataKeys == {"students", "faculty"}

\* The record collections: the load on mount, the admin's adds and
\* removes, the debounced save.
NextData ==
    \/ \E o \in Outcomes : loadDone(o)
    \/ \E k \in Addable \cap DataKeys : \E item \in Items :
          handleAddItem(k, item)
    \/ \E k \in Collections : \E n \in 1..MaxItems : handleRemoveItem(k, n)
    \/ timerFires
    \/ \E s \in saving : \E ok \in BOOLEAN : saveDone(s, ok)

SpecData == InitData /\ [][NextData]_vars

\* ------------------------------------------------------------------ claims
\* The steps the claims speak of.
TurnMessages == {m \in TextMessages : m.turnComplete}

IsTurnComplete(i, m) == m.turnComplete /\ onmessage(i, m)

IsStop ==
    \/ stopVoiceSession
    \/ \E i \in Sessions : onerror(i) \/ onclose(i)

IsInterruption ==
    \/ \E i \in Sessions : \E m \in Messages :
          m.interrupted /\ ~hasAudio(m) /\ onmessage(i, m)
    \/ \E c \in Chunks : src[c].interrupted /\ decodeAudioDone(c)

activeSources == sourcesOf(src, audioNodesRef)

\* C1: handling a message that carries turnComplete appends exactly two
\* entries to the transcript log, a 'user' entry and then a 'model' entry,
\* whatever the pending strings hold, and leaves currentInput and
\* currentOutput empty.
C1_TurnCompleteAppendsPair ==
    [][\A i \in Sessions : \A m \in TurnMessages :
          IsTurnComplete(i, m) =>
              LET n == Len(transcriptions) IN
              /\ Len(transcriptions') = n + 2
              /\ SubSeq(transcriptions', 1, n) = transcriptions
              /\ transcriptions'[n + 1].role = "user"
              /\ transcriptions'[n + 2].role = "model"
              /\ currentInput' = <<>>
              /\ currentOutput' = <<>>]_vars

\* A turn has completed while a fragment had been received: the log holds
\* the pair and the pending strings are empty.
C1_Witness ==
    /\ Len(transcriptions) = 2
    /\ transcriptions[1].role = "user"
    /\ transcriptions[2].role = "model"
    /\ currentInput = <<>>
    /\ currentOutput = <<>>
    /\ \E i \in Sessions : sess[i].phase = "open"

\* C2: on turn completion the user entry's text is the concatenation of the
\* input fragments received since the previous turn completion, and the
\* model entry's text that of the output fragments.
C2_EntryTextIsTurnText ==
    [][\A i \in Sessions : \A m \in TurnMessages :
          IsTurnComplete(i, m) =>
              LET n == Len(transcriptions) IN
              /\ transcriptions'[n + 1].text = heard.in \o fragment(m.in)
              /\ transcriptions'[n + 2].text = heard.out \o fragment(m.out)]_vars

\* C3: at most one voice session is live (its connect call made, its
\* connection not closed) at any time.
liveSessions == {i \in Sessions : sess[i].phase \in {"connecting", "open"}}

C3_AtMostOneLiveSession == Cardinality(liveSessions) <= 1

\* C4: stopVoiceSession applied twice gives the state it gives applied
\* once, it raises no error, and before any session was started it changes
\* nothing.
C4_StopIdempotent ==
    LET once == stopVoiceSessionOn(StopState) IN
    /\ stopVoiceSessionOn(once) = once
    /\ ~once.threw
    /\ started = 0 => once = StopState

\* A stop has torn down an acknowledged session with a scheduled source.
C4_Witness ==
    /\ sessionRef = Null
    /\ ~isConnected
    /\ status = "idle"
    /\ \E i \in Sessions : sess[i].phase = "closing" /\ sess[i].resolved
    /\ \E c \in Chunks : src[c].state = "stopped"

\* C5: the capture pipeline is attached only while its session is open (no
\* frame before onopen, none after a teardown), and the microphone is not
\* held once the session has been torn down.
C5_CaptureOnlyWhileOpen ==
    \A i \in Sessions :
        /\ sess[i].capture => sess[i].phase = "open"
        /\ sess[i].phase \in {"closing", "closed"} => ~sess[i].mic

\* C6: an explicit stop while a session is connecting closes that session.
C6_StopClosesPendingSession ==
    [][\A i \in Sessions :
          (sess[i].phase = "connecting" /\ stopVoiceSession) =>
              sess'[i].phase \in {"closing", "closed"}]_vars

\* C7: a remote onclose or onerror leaves the state an explicit stop
\* leaves: sessionRef null, every source of the active set stopped and the
\* set empty, nextStartTime 0, isConnected and isConnecting false, status
\* 'idle'.  (Either handler moves its session to another phase.)
C7_RemoteCloseIsStop ==
    [][\A i \in Sessions :
          (sess'[i].phase # sess[i].phase /\ (onclose(i) \/ onerror(i))) =>
              /\ sessionRef' = Null
              /\ \A c \in activeSources : src'[c].state = "stopped"
              /\ sourcesOf(src', audioNodesRef') = {}
              /\ nextStartTimeRef' = 0
              /\ ~isConnected'
              /\ ~isConnecting'
              /\ status' = "idle"]_vars

\* A remote close has ended a session that had a scheduled source.
C7_Witness ==
    /\ \E i \in Sessions : sess[i].phase = "closed" /\ sess[i].capture
    /\ \E c \in Chunks : src[c].state = "stopped"
    /\ sessionRef = Null
    /\ status = "idle"
    /\ nextStartTimeRef = 0

\* C8: no step other than an interruption or a stop decreases
\* nextStartTime, also when the handling of chunks interleaves at the decode.
C8_CursorNonDecreasing ==
    [][(~IsInterruption /\ ~IsStop) =>
          nextStartTimeRef' >= nextStartTimeRef]_vars

\* Two chunks are in decode at once and the cursor has advanced.
C8_Witness ==
    /\ nextStartTimeRef > 0
    /\ \E c, d \in Chunks :
          c # d /\ src[c].state = "decoding" /\ src[d].state = "decoding"

\* C9: once a message with the interrupted marker has been handled, the
\* active source set is empty and nextStartTime is 0.
C9_InterruptionClears ==
    [][IsInterruption =>
          /\ sourcesOf(src', audioNodesRef') = {}
          /\ nextStartTimeRef' = 0]_vars

\* An interruption has stopped a scheduled source of the open session while
\* another chunk was in decode.
C9_Witness ==
    /\ isConnected
    /\ nextStartTimeRef = 0
    /\ activeSources = {}
    /\ \E c, d \in Chunks :
          src[c].state = "stopped" /\ src[d].state = "decoding"

\* C10: a chunk is started at max(nextStartTime, output clock), taken when
\* it arrives or when it is scheduled, its source joins the active set, and
\* nextStartTime becomes that start plus the chunk's duration.  Stated for
\* the chunks that find the cursor at or beyond their arrival value: no
\* interruption or stop has reset it in between.
C10_StartAtMaxOfCursorAndClock ==
    [][\A c \in Chunks :
          (/\ ~src[c].interrupted
           /\ nextStartTimeRef >= src[c].arrival
           /\ decodeAudioDone(c)) =>
              /\ \/ src'[c].when = src[c].arrival
                 \/ src'[c].when =
                        Max(nextStartTimeRef, currentTime(src[c].ctx))
              /\ src'[c].inSet
              /\ nextStartTimeRef' = src'[c].when + src[c].dur]_vars

\* C11: an interruption discards all audio received before it: once the
\* interruption has been handled no chunk received before it is in the
\* active set, scheduled, or still on its way to being started (its decode
\* pending).
C11_InterruptionDiscardsEarlierAudio ==
    [][IsInterruption =>
          \A c \in Chunks :
              src[c].state # "none" =>
                  /\ src'[c].state \notin {"decoding", "scheduled"}
                  /\ ~src'[c].inSet]_vars

\* C12: handling an interruption while the session is open forces status
\* to 'listening': it is 'listening' after the interruption, and still
\* after the 'ended' callbacks of the sources the interruption stopped.
C12_InterruptionForcesListening ==
    [][/\ (isConnected /\ IsInterruption) => status' = "listening"
       /\ \A c \in Chunks :
              (isConnected /\ src[c].state = "stopped" /\ ended(c)) =>
                  status' = "listening"]_vars

\* C13: when getUserMedia or the connect call fails during a start, the
\* component is left with isConnecting false, isConnected false, status
\* 'idle' and no session handle, and the failed start is never retried: it
\* makes no further connect call.
C13_FailedStartLeavesIdle ==
    [][\A i \in Sessions :
          /\ (sess'[i].phase # sess[i].phase /\ startFailed(i)) =>
                 /\ ~isConnecting'
                 /\ ~isConnected'
                 /\ status' = "idle"
                 /\ sessionRef' = Null
          /\ sess[i].phase = "failed" => sess'[i].phase = "failed"]_vars

\* The documents that may have been written to the cache.
KnownDocs == RemoteDocs \cup {data, remote} \cup {s.data : s \in saving}

\* C14: persistence.load returns the remote document and overwrites the
\* cache with it when the remote fetch succeeds; when the fetch throws or
\* answers non-ok it leaves the cache alone and returns the cached document;
\* it returns null only when the remote failed and the cache is empty; it
\* never throws for a remote failure.
C14_LoadFallsBackToCache ==
    \A o \in Outcomes :
        LET r == load(o, remote, localStorage) IN
        /\ ~r.threw
        /\ o = "ok" =>
               /\ r.ret = Some(remote)
               /\ truthy(r.cache)
               /\ load("throws", EmptyDoc, r.cache).ret = Some(remote)
        /\ o # "ok" =>
               /\ r.cache = localStorage
               /\ r.ret.some <=> truthy(localStorage)
               /\ \A d \in KnownDocs :
                      stringify(d) = localStorage => r.ret = Some(d)
        /\ ~r.ret.some => (o # "ok" /\ ~truthy(localStorage))

\* The load on mount found the remote store failing and took the data from
\* a cache that holds a record.
C14_Witness ==
    /\ loading = "done"
    /\ syncStatus = "synced"
    /\ lastSavedData = <<>>
    /\ saving = {}
    /\ truthy(localStorage)
    /\ size(data) > 0
    /\ stringify(data) = localStorage
    /\ data # remote

\* C15: every fragment a message carries is appended to its pending string,
\* the input fragment to currentInput and the output fragment to
\* currentOutput, for every combination of fields, a message with both
\* fragments included; status is 'speaking' after an output fragment and
\* 'listening' after an input fragment.
C15_EveryFragmentAppended ==
    [][\A i \in Sessions : \A m \in TextMessages \ TurnMessages :
          onmessage(i, m) =>
              /\ currentInput' = currentInput \o fragment(m.in)
              /\ currentOutput' = currentOutput \o fragment(m.out)
              /\ (m.out # None /\ m.in = None) => status' = "speaking"
              /\ (m.in # None /\ m.out = None) => status' = "listening"
              /\ (m.in # None /\ m.out # None) =>
                     status' \in {"speaking", "listening"}]_vars

C17_DistinctIds ==
    \A a, b \in 1..Len(transcriptions) :
        a # b => transcriptions[a].id # transcriptions[b].id

\* C18: every add or remove in any collection, whatever data results,
\* leaves a save of the resulting data pending (a pending save of earlier
\* data being cancelled), and the save that runs when the interval elapses
\* is called with the latest data.
C18_EveryChangeIsSaved ==
    [][/\ (data' # data /\ loading' = loading) =>
              (timer'.set /\ timer'.data = data')
       /\ timerFires => (timer.data = data /\ timer \in saving')]_vars

\* C19: absent an interruption, the scheduled chunks of a session never
\* sound at the same time: of any two, one finishes playing no later than
\* the other begins, also when a decode takes time.
C19_NoOverlap ==
    \A c, d \in Chunks :
        (/\ c # d
         /\ src[c].state = "scheduled"
         /\ src[d].state = "scheduled"
         /\ src[c].ctx = src[d].ctx) =>
            \/ src[c].playEnd <= src[d].playStart
            \/ src[d].playEnd <= src[c].playStart

\* C20: once a later session has been started, the events of a session
\* that was stopped leave the later session alone: its late onclose or
\* onerror does not change sessionRef, isConnecting, isConnected,
\* nextStartTime or status, and the late 'ended' of one of its sources does
\* not change status.
C20_FinishedSessionIsInert ==
    [][/\ \A i \in Sessions :
              (/\ sess[i].phase = "closing"
               /\ sess[i].resolved
               /\ audioContextsRef # i
               /\ sess'[i].phase # "closing"
               /\ (onclose(i) \/ onerror(i))) =>
                  /\ sessionRef' = sessionRef
                  /\ isConnecting' = isConnecting
                  /\ isConnected' = isConnected
                  /\ nextStartTimeRef' = nextStartTimeRef
                  /\ status' = status
       /\ \A c \in Chunks :
              (/\ src[c].nodes # Null
               /\ src[c].nodes # audioNodesRef
               /\ ended(c)) => status' = status]_vars
====
